---- MODULE Spec2Model ----
(***************************************************************************)
(* Model of two Ansible modules of community.vmware:                       *)
(*   plugins/modules/vmware_content_deploy_ovf_template.py  (Spec)         *)
(*   plugins/modules/vmware_object_permissions_info.py      (PermSpec)     *)
(* A run of a module is a straight-line sequence of remote calls ending in *)
(* exit_json, fail_json or an uncaught exception.  The vCenter inventory,  *)
(* the outcome of each remote call and whether the vSphere Automation SDK  *)
(* can be imported are the environment.  Spec is the program, whose module *)
(* object is an AnsibleModule; AnyModuleSpec also runs the module with an  *)
(* object that has the `result` attribute line 192 assigns to, and reaches *)
(* the statements after that line.                                         *)
(***************************************************************************)
EXTENDS Naturals, Sequences, FiniteSets, TLC

VARIABLES
    params,      \* module.params of the deploy module
    HAS_VAUTOMATION, \* the vSphere Automation SDK was imported (lines 129-136)
    has_result,  \* the module object has a `result` attribute (FALSE for AnsibleModule)
    check_mode,  \* module.check_mode of the current run
    inv,         \* the vCenter inventory: per kind, name -> id of existing objects
    pc,          \* position of the current run of the deploy module
    ids,         \* self.datacenter_id ... self.resourcepool_id
    debug,       \* module.result['debug'] (None until line 192 sets it)
    calls,       \* remote calls issued so far in the current run, in order
    report,      \* how the current run ended: exit_json / fail_json / exception
    run,         \* index of the current run
    deployedIn,  \* index of the run whose deploy call returned succeeded (0: none)
    pparams,     \* module.params of the permissions-info module
    pinv,        \* the managed objects of the inventory (permissions-info)
    ppc,         \* position of the permissions-info run
    applied_to,  \* self.applied_to (None until __init__ sets it)
    is_group,    \* self.is_group
    current_obj, \* self.current_obj
    current_perms, \* self.current_perms
    pwarnings,   \* messages passed to module.warn
    pcalls,      \* remote calls issued by the permissions-info run
    preport      \* how the permissions-info run ended

dvars == <<params, HAS_VAUTOMATION, has_result, check_mode, inv, pc, ids, debug, calls, report, run, deployedIn>>
pvars == <<pparams, pinv, ppc, applied_to, is_group, current_obj, current_perms, pwarnings, pcalls, preport>>
vars == <<params, HAS_VAUTOMATION, has_result, check_mode, inv, pc, ids, debug, calls, report, run, deployedIn,
          pparams, pinv, ppc, applied_to, is_group, current_obj, current_perms, pwarnings,
          pcalls, preport>>

\* Number of successive runs of the deploy module against the same inventory.
MaxRuns == 2

\* Python's None, and Python truthiness of an optional string.
None == "None"
Truthy(x) == x # None /\ x # ""

\* The empty directory (no object of that kind exists).
Nothing == [n \in {} |-> None]
\* Every directory with at most one entry for `name`, with an id from `idset`.
Dirs(name, idset) ==
    IF name = None THEN {Nothing}
    ELSE {Nothing} \cup {(name :> i) : i \in idset}

NoReport == [kind |-> "none"]
NoIds == [datacenter_id |-> None, datastore_id |-> None, library_item_id |-> None,
          folder_id |-> None, host_id |-> None, cluster_id |-> None,
          resourcepool_id |-> None]

(***************************************************************************)
(* Remote directory lookups (VmwareRestClient / PyVmomi helpers).          *)
(***************************************************************************)
Lookup(dir, name) == IF name \in DOMAIN dir THEN dir[name] ELSE None

get_vm(i, p) == Lookup(i.vms, p.name)
get_datacenter_by_name(i, name) == Lookup(i.datacenters, name)
get_datastore_by_name(i, dc, name) == Lookup(i.datastores, name)
\* A datastore cluster object; NoObject stands for Python's None.
NoObject == [moid |-> None, recommended |-> None]
find_datastore_cluster_by_name(i, name) ==
    IF name \in DOMAIN i.datastore_clusters THEN i.datastore_clusters[name] ELSE NoObject
get_recommended_datastore(dsc) == dsc.recommended
get_library_item_from_content_library_name(i, template, library) ==
    Lookup(i.library_items, <<library, template>>)
get_library_item_by_name(i, template) == Lookup(i.library_items, <<None, template>>)
get_folder_by_name(i, dc, name) == Lookup(i.folders, name)
get_host_by_name(i, dc, name) == Lookup(i.hosts, name)
get_resource_pool_by_name(i, dc, name, cluster, host) == Lookup(i.resource_pools, name)
get_cluster_by_name(i, dc, name) == Lookup(i.clusters, name)

(***************************************************************************)
(* Parameters accepted by main()'s argument_spec.                          *)
(***************************************************************************)
DeployParams ==
    { p \in [template : {"tmpl"}, library : {None, "lib"}, name : {"Sample_VM"},
             datacenter : {"DC"}, datastore : {None, "DS"},
             datastore_cluster : {None, "DSC"}, folder : {"vm"},
             host : {None, "esx1"}, resource_pool : {None, "rp"},
             cluster : {None, "cl"},
             storage_provisioning : {"thin", "eagerzeroedthick"}] :
        \* required_one_of = [['datastore', 'datastore_cluster']]
        p.datastore # None \/ p.datastore_cluster # None }

Inventories(p) ==
    [vms : Dirs(p.name, {"vm-7"}),
     datacenters : Dirs(p.datacenter, {"datacenter-2"}),
     datastores : Dirs(p.datastore, {"datastore-11"}),
     datastore_clusters : Dirs(p.datastore_cluster,
                               {[moid |-> "group-p4", recommended |-> r] :
                                   r \in {None, "datastore-12"}}),
     library_items : Dirs(<<p.library, p.template>>, {"item-5"}),
     folders : Dirs(p.folder, {"group-v3"}),
     hosts : Dirs(p.host, {"host-21"}),
     resource_pools : Dirs(p.resource_pool, {"resgroup-8"}),
     clusters : Dirs(p.cluster, {"domain-c9"}),
     cluster_rp : {None, "resgroup-10"}]

(***************************************************************************)
(* Reports.                                                                *)
(***************************************************************************)
exit_json(args) == [kind |-> "exit_json", args |-> args]
fail_json(m) == [kind |-> "fail_json", args |-> [msg |-> m]]
Uncaught(e) == [kind |-> "exception", args |-> [msg |-> e]]

Ended(r) ==
    /\ report' = r
    /\ pc' = "done"

Call(c) == calls' = Append(calls, c)

\* A lookup result that is never taken to be missing.
NeverNotFound(id) == FALSE

\* The test `if not self.<kind>_id` that follows a lookup by name.
NotFound(id) == ~Truthy(id)

\* An existing VM that goes unnoticed.
NeverExists(vm) == FALSE

\* The test `if vm` of the constructor.
VmExists(vm) == Truthy(vm)

(***************************************************************************)
(* The deploy module: VmwareContentDeployOvfTemplate.                      *)
(***************************************************************************)
\* ansible.module_utils.basic.missing_required_lib
missing_required_lib(library) ==
    "Failed to import the required Python library (" \o library \o ")"

\* AnsibleModule.fail_json(self, msg=..., exception=VAUTOMATION_IMP_ERR) with
\* self the client object, not an AnsibleModule.  Under Python 2 the call of
\* the unbound method raises TypeError before fail_json is entered; under
\* Python 3 fail_json runs and reports the failure, or raises AttributeError
\* where it uses what only an AnsibleModule has.  Nothing catches either.
UnboundFailJson(m) ==
    {[kind |-> "fail_json", args |-> [msg |-> m, exception |-> "VAUTOMATION_IMP_ERR"]],
     Uncaught("AttributeError"),
     Uncaught("TypeError: unbound method fail_json() must be called with "
              \o "AnsibleModule instance as first argument "
              \o "(got VmwareContentDeployOvfTemplate instance instead)")}

\* __init__: fail without the SDK; else look the VM up by name and exit
\* unchanged if it already exists.
Construct ==
    /\ pc = "init"
    /\ IF ~HAS_VAUTOMATION
       THEN /\ \E r \in UnboundFailJson(missing_required_lib("vSphere-Automation-SDK")) :
                Ended(r)
            /\ UNCHANGED calls
       ELSE LET vm == get_vm(inv, params) IN
            /\ Call([op |-> "get_vm", name |-> params.name, found |-> vm])
            /\ IF VmExists(vm)
               THEN Ended(exit_json(
                        [changed |-> FALSE,
                         vm_deploy_info |->
                            [msg |-> "Virtual Machine '" \o params.name
                                     \o "' already Exists.",
                             vm_id |-> vm]]))
               ELSE pc' = "main" /\ report' = report
    /\ UNCHANGED <<params, HAS_VAUTOMATION, has_result, debug, check_mode, inv, ids, run, deployedIn, pvars>>

\* main(): after construction, check mode reports the intended operation.
CheckModeExit ==
    /\ pc = "main"
    /\ check_mode
    /\ Ended(exit_json([failed |-> FALSE, changed |-> TRUE, vm_name |-> params.name,
                        desired_operation |-> "Create VM with PowerOff State"]))
    /\ UNCHANGED <<params, HAS_VAUTOMATION, has_result, debug, check_mode, inv, ids, calls, run, deployedIn, pvars>>

\* deploy_vm_from_ovf_template() is entered without regard to check mode.
EnterDeployInCheckMode ==
    /\ pc = "main"
    /\ pc' = "datacenter"
    /\ UNCHANGED <<params, HAS_VAUTOMATION, has_result, debug, check_mode, inv, ids, calls, report, run, deployedIn, pvars>>

\* main(): otherwise deploy_vm_from_ovf_template() is entered.
EnterDeploy ==
    /\ pc = "main"
    /\ ~check_mode
    /\ pc' = "datacenter"
    /\ UNCHANGED <<params, HAS_VAUTOMATION, has_result, debug, check_mode, inv, ids, calls, report, run, deployedIn, pvars>>

ResolveDatacenter ==
    /\ pc = "datacenter"
    /\ LET id == get_datacenter_by_name(inv, params.datacenter) IN
        /\ Call([op |-> "get_datacenter_by_name", name |-> params.datacenter, found |-> id])
        /\ ids' = [ids EXCEPT !.datacenter_id = id]
        /\ IF NotFound(id)
           THEN Ended(fail_json("Failed to find the datacenter " \o params.datacenter))
           ELSE pc' = "datastore" /\ report' = report
    /\ UNCHANGED <<params, HAS_VAUTOMATION, has_result, debug, check_mode, inv, run, deployedIn, pvars>>

ResolveDatastore ==
    /\ pc = "datastore"
    /\ IF ~has_result
       THEN \* line 192: self.module.result raises AttributeError, which nothing catches
            /\ Ended(Uncaught("'AnsibleModule' object has no attribute 'result'"))
            /\ UNCHANGED <<ids, debug, calls>>
       ELSE IF Truthy(params.datastore)
       THEN LET id == get_datastore_by_name(inv, params.datacenter, params.datastore) IN
            /\ Call([op |-> "get_datastore_by_name", name |-> params.datastore, found |-> id])
            /\ ids' = [ids EXCEPT !.datastore_id = id]
            /\ debug' = [ds_id |-> id]
            /\ IF NotFound(id)
               THEN Ended(fail_json("Failed to find the datastore " \o params.datastore))
               ELSE pc' = "datastore_cluster" /\ report' = report
       ELSE /\ pc' = "datastore_cluster"
            /\ debug' = Nothing
            /\ UNCHANGED <<ids, calls, report>>
    /\ UNCHANGED <<params, HAS_VAUTOMATION, has_result, check_mode, inv, run, deployedIn, pvars>>

\* The datastore id is taken as it comes, empty or not.
AnyDatastoreId(id) == FALSE

\* The test of line 208: no datastore id from either source.
NoDatastoreId(id) == ~Truthy(id)

ResolveDatastoreCluster ==
    /\ pc = "datastore_cluster"
    /\ IF Truthy(params.datastore_cluster) /\ ~Truthy(ids.datastore_id)
       THEN LET dsc == find_datastore_cluster_by_name(inv, params.datastore_cluster) IN
            IF dsc # NoObject
            THEN LET id == get_recommended_datastore(dsc) IN
                 /\ calls' = calls \o
                       <<[op |-> "find_datastore_cluster_by_name",
                          name |-> params.datastore_cluster, found |-> dsc.moid],
                         [op |-> "get_recommended_datastore", name |-> dsc.moid,
                          found |-> id]>>
                 /\ ids' = [ids EXCEPT !.datastore_id = id]
                 /\ debug' = [ds_id |-> id]
                 /\ IF NoDatastoreId(id)
                    THEN Ended(fail_json(
                        "Failed to find the datastore using either datastore or datastore cluster"))
                    ELSE pc' = "library" /\ report' = report
            ELSE /\ Call([op |-> "find_datastore_cluster_by_name",
                          name |-> params.datastore_cluster, found |-> None])
                 /\ Ended(fail_json("Failed to find the datastore cluster "
                                    \o params.datastore_cluster))
                 /\ UNCHANGED <<ids, debug>>
       ELSE /\ UNCHANGED <<ids, debug, calls>>
            /\ IF NoDatastoreId(ids.datastore_id)
               THEN Ended(fail_json(
                   "Failed to find the datastore using either datastore or datastore cluster"))
               ELSE pc' = "library" /\ report' = report
    /\ UNCHANGED <<params, HAS_VAUTOMATION, has_result, check_mode, inv, run, deployedIn, pvars>>

ResolveLibraryItem ==
    /\ pc = "library"
    /\ IF Truthy(params.library)
       THEN LET id == get_library_item_from_content_library_name(
                          inv, params.template, params.library) IN
            /\ Call([op |-> "get_library_item_from_content_library_name",
                     name |-> params.template, found |-> id])
            /\ ids' = [ids EXCEPT !.library_item_id = id]
            /\ IF NotFound(id)
               THEN Ended(fail_json("Failed to find the library Item " \o params.template
                                    \o " in content library " \o params.library))
               ELSE pc' = "folder" /\ report' = report
       ELSE LET id == get_library_item_by_name(inv, params.template) IN
            /\ Call([op |-> "get_library_item_by_name", name |-> params.template,
                     found |-> id])
            /\ ids' = [ids EXCEPT !.library_item_id = id]
            /\ IF NotFound(id)
               THEN Ended(fail_json("Failed to find the library Item " \o params.template))
               ELSE pc' = "folder" /\ report' = report
    /\ UNCHANGED <<params, HAS_VAUTOMATION, has_result, debug, check_mode, inv, run, deployedIn, pvars>>

ResolveFolder ==
    /\ pc = "folder"
    /\ LET id == get_folder_by_name(inv, params.datacenter, params.folder) IN
        /\ Call([op |-> "get_folder_by_name", name |-> params.folder, found |-> id])
        /\ ids' = [ids EXCEPT !.folder_id = id]
        /\ IF NotFound(id)
           THEN Ended(fail_json("Failed to find the folder " \o params.folder))
           ELSE pc' = "host" /\ report' = report
    /\ UNCHANGED <<params, HAS_VAUTOMATION, has_result, debug, check_mode, inv, run, deployedIn, pvars>>

ResolveHost ==
    /\ pc = "host"
    /\ IF Truthy(params.host)
       THEN LET id == get_host_by_name(inv, params.datacenter, params.host) IN
            /\ Call([op |-> "get_host_by_name", name |-> params.host, found |-> id])
            /\ ids' = [ids EXCEPT !.host_id = id]
            /\ IF NotFound(id)
               THEN Ended(fail_json("Failed to find the Host " \o params.host))
               ELSE pc' = "resourcepool" /\ report' = report
       ELSE /\ pc' = "resourcepool"
            /\ UNCHANGED <<ids, calls, report>>
    /\ UNCHANGED <<params, HAS_VAUTOMATION, has_result, debug, check_mode, inv, run, deployedIn, pvars>>

\* The test of line 245: no resource pool id from either source.
NoResourcePoolId(id) == ~Truthy(id)

\* Lines 234-246 when resource_pool is given: the pool is looked up by name.
ResolveResourcePool ==
    /\ pc = "resourcepool"
    /\ Truthy(params.resource_pool)
    /\ LET id == get_resource_pool_by_name(inv, params.datacenter, params.resource_pool,
                                           params.cluster, params.host) IN
        /\ Call([op |-> "get_resource_pool_by_name", name |-> params.resource_pool,
                 found |-> id])
        /\ ids' = [ids EXCEPT !.resourcepool_id = id]
        /\ IF NotFound(id)
           THEN Ended(fail_json("Failed to find the resource_pool " \o params.resource_pool))
           ELSE IF NoResourcePoolId(id)
           THEN Ended(fail_json("Failed to find a resource pool either by name or cluster"))
           ELSE pc' = "filter" /\ report' = report
    /\ UNCHANGED <<params, HAS_VAUTOMATION, has_result, debug, check_mode, inv, run, deployedIn, pvars>>

\* Outcomes of the remote call vcenter.Cluster.get.
ClusterGetOutcomes == {"ok", "Error"}

\* Lines 238-246 when only cluster is given: the cluster's root resource pool.
ResolveCluster ==
    /\ pc = "resourcepool"
    /\ ~Truthy(params.resource_pool)
    /\ Truthy(params.cluster)
    /\ LET id == get_cluster_by_name(inv, params.datacenter, params.cluster)
           lookup == [op |-> "get_cluster_by_name", name |-> params.cluster, found |-> id]
       IN  IF NotFound(id)
           THEN /\ Call(lookup)
                /\ ids' = [ids EXCEPT !.cluster_id = id]
                /\ Ended(fail_json("Failed to find the Cluster " \o params.cluster))
           ELSE \E out \in ClusterGetOutcomes :
                /\ calls' = calls \o <<lookup, [op |-> "Cluster.get", cluster |-> id,
                                                outcome |-> out]>>
                /\ IF out = "Error"
                   THEN /\ ids' = [ids EXCEPT !.cluster_id = id]
                        /\ Ended(Uncaught("Cluster.get"))
                   ELSE /\ ids' = [ids EXCEPT !.cluster_id = id,
                                              !.resourcepool_id = inv.cluster_rp]
                        /\ IF NoResourcePoolId(inv.cluster_rp)
                           THEN Ended(fail_json(
                               "Failed to find a resource pool either by name or cluster"))
                           ELSE pc' = "filter" /\ report' = report
    /\ UNCHANGED <<params, HAS_VAUTOMATION, has_result, debug, check_mode, inv, run, deployedIn, pvars>>

\* Lines 234-246 when neither resource_pool nor cluster is given.
NoResourcePoolSource ==
    /\ pc = "resourcepool"
    /\ ~Truthy(params.resource_pool)
    /\ ~Truthy(params.cluster)
    /\ IF NoResourcePoolId(ids.resourcepool_id)
       THEN Ended(fail_json("Failed to find a resource pool either by name or cluster"))
       ELSE pc' = "filter" /\ report' = report
    /\ UNCHANGED <<params, HAS_VAUTOMATION, has_result, debug, check_mode, inv, ids, calls, run, deployedIn, pvars>>

\* LibraryItem.DeploymentTarget(resource_pool_id=..., folder_id=...)
DeploymentTarget(i) ==
    [resource_pool_id |-> i.resourcepool_id, folder_id |-> i.folder_id]

\* __init__, lines 167-169: the lower-case spelling is replaced by the SDK's.
storage_provisioning(p) ==
    IF p.storage_provisioning = "eagerzeroedthick" THEN "eagerZeroedThick"
    ELSE p.storage_provisioning

\* LibraryItem.ResourcePoolDeploymentSpec(name=..., default_datastore_id=...)
ResourcePoolDeploymentSpec(p, i, annotation) ==
    [name |-> p.name, annotation |-> annotation, accept_all_eula |-> TRUE,
     storage_provisioning |-> storage_provisioning(p),
     default_datastore_id |-> i.datastore_id]

\* Outcomes of the remote call vcenter.ovf.LibraryItem.filter.
FilterOutcomes == {"ok", "Error"}

\* Lines 248-255: build the target and ask for the OVF summary.
OvfFilter ==
    /\ pc = "filter"
    /\ \E out \in FilterOutcomes :
        /\ Call([op |-> "filter", ovf_library_item_id |-> ids.library_item_id,
                 target |-> DeploymentTarget(ids), outcome |-> out])
        /\ IF out = "Error"
           THEN Ended(Uncaught("LibraryItem.filter"))
           ELSE pc' = "deploy" /\ report' = report
    /\ UNCHANGED <<params, HAS_VAUTOMATION, has_result, debug, check_mode, inv, ids, run, deployedIn, pvars>>

\* Outcomes of the remote call vcenter.ovf.LibraryItem.deploy: a result record,
\* a vAPI Error, or any other exception.
NewVmIds == {"vm-1009", "vm-1010"}
DeployOutcomes ==
    {[kind |-> "result", succeeded |-> TRUE, id |-> v] : v \in NewVmIds}
    \cup {[kind |-> "result", succeeded |-> FALSE, id |-> None],
          [kind |-> "Error", text |-> "vapi error message"],
          [kind |-> "Exception", text |-> "connection reset"]}

get_error_message(error) == error.text
to_native(err) == err.text

\* Lines 280-289: the report for a result record of the deploy call.
DeployReport(p, result) ==
    IF result.succeeded
    THEN exit_json([changed |-> TRUE,
                    vm_deploy_info |->
                        [msg |-> "Deployed Virtual Machine '" \o p.name \o "'.",
                         vm_id |-> result.id]])
    ELSE exit_json([changed |-> FALSE,
                    vm_deploy_info |->
                        [msg |-> "Virtual Machine deployment failed", vm_id |-> ""]])

\* Lines 257-289: build the spec, deploy, report.
Deploy ==
    /\ pc = "deploy"
    /\ \E out \in DeployOutcomes :
        /\ Call([op |-> "deploy", ovf_library_item_id |-> ids.library_item_id,
                 target |-> DeploymentTarget(ids),
                 spec |-> ResourcePoolDeploymentSpec(params, ids, "ovf annotation"),
                 outcome |-> out.kind, result |-> out])
        /\ IF out.kind = "Error"
           THEN /\ Ended(fail_json(get_error_message(out)))
                /\ UNCHANGED <<inv, deployedIn>>
           ELSE IF out.kind = "Exception"
           THEN /\ Ended(fail_json(to_native(out)))
                /\ UNCHANGED <<inv, deployedIn>>
           ELSE /\ Ended(DeployReport(params, out))
                /\ IF out.succeeded
                   THEN /\ inv' = [inv EXCEPT !.vms = (params.name :> out.id)]
                        /\ deployedIn' = run
                   ELSE UNCHANGED <<inv, deployedIn>>
    /\ UNCHANGED <<params, HAS_VAUTOMATION, has_result, debug, check_mode, ids, run, pvars>>

\* The module is run again with the same parameters against the same inventory.
NextRun ==
    /\ pc = "done"
    /\ run < MaxRuns
    /\ run' = run + 1
    /\ pc' = "init"
    /\ ids' = NoIds
    /\ calls' = <<>>
    /\ report' = NoReport
    /\ check_mode' \in BOOLEAN
    /\ UNCHANGED <<params, HAS_VAUTOMATION, has_result, inv, deployedIn, pvars>>
    /\ debug' = None

(***************************************************************************)
(* The permissions-info module: VMwareObjectPermissionsInfo.               *)
(***************************************************************************)
\* A managed object; NoManagedObject stands for Python's None.
NoManagedObject == [type |-> None, name |-> None, moid |-> None]

\* content.rootFolder, which every inventory has.
rootFolder == [type |-> "Folder", name |-> "Datacenters", moid |-> "group-d1"]

\* The managed objects below the root folder that an inventory may hold.
ManagedObjects ==
    {[type |-> "Folder", name |-> "services", moid |-> "group-v1"],
     [type |-> "Folder", name |-> "Accounts", moid |-> "group-v2"],
     [type |-> "Datacenter", name |-> "DC", moid |-> "datacenter-2"],
     [type |-> "DistributedVirtualSwitch", name |-> "dvs", moid |-> "dvs-31"]}

\* The attributes of pyVmomi's vim that name managed object types.
VimTypes == {"Folder", "VirtualMachine", "Datacenter", "ResourcePool", "Datastore",
             "Network", "HostSystem", "ComputeResource", "ClusterComputeResource",
             "DistributedVirtualSwitch"}

\* The parameters a task may give the module (None: the parameter is omitted),
\* after the default of object_type is filled in.
PermParams ==
    [object_type : {"Folder", "Datacenter", "DistributedVirtualSwitch", "Bogus"},
     object_name : {None, "rootFolder", "services", "DC", "dvs", "ghost"},
     moid : {None, "group-v2", "datacenter-2"},
     principal : {None, "user_bob"},
     group : {None, "finance"}]

\* The choices of object_type.
ObjectTypeChoices ==
    {"Folder", "VirtualMachine", "Datacenter", "ResourcePool", "Datastore", "Network",
     "HostSystem", "ComputeResource", "ClusterComputeResource",
     "DistributedVirtualSwitch"}

\* How many of the named parameters the task supplied.
count_terms(terms, p) == Cardinality({t \in terms : p[t] # None})

\* mutually_exclusive=[['moid', 'object_name'], ['principal', 'group']]
MutuallyExclusiveError(p) ==
    LET a == count_terms({"moid", "object_name"}, p) > 1
        b == count_terms({"principal", "group"}, p) > 1
    IN  IF a /\ b THEN "parameters are mutually exclusive: moid|object_name, principal|group"
        ELSE IF a THEN "parameters are mutually exclusive: moid|object_name"
        ELSE IF b THEN "parameters are mutually exclusive: principal|group"
        ELSE None

\* choices of object_type
ChoicesError(p) ==
    IF p.object_type \in ObjectTypeChoices THEN None
    ELSE "value of object_type must be one of: Folder, VirtualMachine, Datacenter, "
         \o "ResourcePool, Datastore, Network, HostSystem, ComputeResource, "
         \o "ClusterComputeResource, DistributedVirtualSwitch, got: " \o p.object_type

\* required_together=[['object_name', 'object_type']]: object_type always has
\* a value (its default), so object_name may not be omitted.
RequiredTogetherError(p) ==
    LET n == count_terms({"object_name", "object_type"}, p)
    IN  IF n > 0 /\ n < 2
        THEN "parameters are required together: object_name, object_type"
        ELSE None

\* required_one_of=[['moid', 'object_name'], ['principal', 'group']]
RequiredOneOfError(p) ==
    IF count_terms({"moid", "object_name"}, p) = 0
    THEN "one of the following is required: moid, object_name"
    ELSE IF count_terms({"principal", "group"}, p) = 0
    THEN "one of the following is required: principal, group"
    ELSE None

\* The checks AnsibleModule makes of the parameters, in its order; the first
\* that fails gives the message of the failure.
ArgumentErrors(p) ==
    <<MutuallyExclusiveError(p), ChoicesError(p), RequiredTogetherError(p),
      RequiredOneOfError(p)>>

ValidationError(p) ==
    LET errs == SelectSeq(ArgumentErrors(p), Truthy)
    IN  IF errs = <<>> THEN None ELSE errs[1]

\* find_obj(content, [vimtype], name): the objects it may return.  Without a
\* name it returns the first object of the type in the container view, whose
\* order is the server's; with a name, the first object of that type and name.
find_obj(objs, vimtype, name) ==
    LET view == {o \in objs : o.type = vimtype}
        hits == IF name = None THEN view ELSE {o \in view : o.name = name}
    IN  IF hits = {} THEN {NoManagedObject} ELSE hits

\* The permissions an entity may carry, and the faults of the query.
Permission(principal, roleId) ==
    [principal |-> principal, group |-> FALSE, roleId |-> roleId, propagate |-> TRUE]
PermissionLists == {<<>>, <<Permission("user_bob", 1)>>,
                    <<Permission("user_bob", 1), Permission("view_user", 2)>>}
QueryOutcomes ==
    {[kind |-> "result", perms |-> l] : l \in PermissionLists}
    \cup {[kind |-> "fault", perms |-> <<>>]}

\* PyVmomi.to_json: each permission object becomes a plain dictionary.
to_json(perms) ==
    [k \in 1..Len(perms) |->
        [_vimtype |-> "vim.AuthorizationManager.Permission",
         principal |-> perms[k].principal, group |-> perms[k].group,
         roleId |-> perms[k].roleId, propagate |-> perms[k].propagate]]

PEnded(r) ==
    /\ preport' = r
    /\ ppc' = "done"

\* An object that is never taken to be missing.
NeverNone(obj) == FALSE

\* The test `if self.current_obj is None` of get_object.
ObjectIsNone(obj) == obj = NoManagedObject

DvsWarning ==
    "You are applying permissions to a Distributed vSwitch. "
    \o "This will probably fail, since Distributed vSwitches inherits permissions "
    \o "from the datacenter or a folder level. "
    \o "Define permissions on the datacenter or the folder containing the switch."

\* main(): AnsibleModule(...) validates the parameters and fails the task
\* before the class is constructed if they break the argument spec.
ParseArguments ==
    /\ ppc = "main"
    /\ IF ValidationError(pparams) # None
       THEN PEnded(fail_json(ValidationError(pparams)))
       ELSE ppc' = "init" /\ preport' = preport
    /\ UNCHANGED <<pparams, pinv, applied_to, is_group, current_obj, current_perms,
                   pwarnings, pcalls, dvars>>

\* __init__, lines 136-148: whom the permissions would apply to.
ConstructPerms ==
    /\ ppc = "init"
    /\ IF pparams.principal # None
       THEN applied_to' = pparams.principal /\ is_group' = FALSE
       ELSE IF pparams.group # None
       THEN applied_to' = pparams.group /\ is_group' = TRUE
       ELSE applied_to' = applied_to /\ is_group' = FALSE
    /\ ppc' = "get_object"
    /\ UNCHANGED <<pparams, pinv, current_obj, current_perms, pwarnings, pcalls,
                   preport, dvars>>

\* get_object(), called from __init__.
GetObject ==
    /\ ppc = "get_object"
    /\ IF pparams.object_type = "Folder" /\ pparams.object_name = "rootFolder"
       THEN /\ current_obj' = rootFolder
            /\ ppc' = "get_perms"
            /\ UNCHANGED <<pcalls, preport, pwarnings>>
       ELSE IF pparams.object_type \notin VimTypes
       THEN /\ PEnded(fail_json("Object type " \o pparams.object_type \o " is not valid."))
            /\ UNCHANGED <<current_obj, pcalls, pwarnings>>
       ELSE \E obj \in find_obj(pinv, pparams.object_type, pparams.object_name) :
            /\ pcalls' = Append(pcalls, [op |-> "find_obj", vimtype |-> pparams.object_type,
                                         name |-> pparams.object_name])
            /\ current_obj' = obj
            /\ IF ObjectIsNone(obj)
               THEN /\ PEnded(fail_json("Specified object " \o pparams.object_name
                                        \o " of type " \o pparams.object_type
                                        \o " was not found."))
                    /\ UNCHANGED pwarnings
               ELSE /\ ppc' = "get_perms"
                    /\ preport' = preport
                    /\ pwarnings' = IF pparams.object_type = "DistributedVirtualSwitch"
                                    THEN Append(pwarnings, DvsWarning)
                                    ELSE pwarnings
    /\ UNCHANGED <<pparams, pinv, applied_to, is_group, current_perms, dvars>>

\* get_perms(): the one permission query; a fault is not caught.
GetPerms ==
    /\ ppc = "get_perms"
    /\ \E out \in QueryOutcomes :
        /\ pcalls' = Append(pcalls, [op |-> "RetrieveEntityPermissions",
                                     entity |-> current_obj.moid, inherited |-> FALSE,
                                     outcome |-> out.kind])
        /\ IF out.kind = "fault"
           THEN /\ PEnded(Uncaught("RetrieveEntityPermissions"))
                /\ UNCHANGED current_perms
           ELSE /\ current_perms' = out.perms
                /\ ppc' = "exit"
                /\ preport' = preport
    /\ UNCHANGED <<pparams, pinv, applied_to, is_group, current_obj, pwarnings, dvars>>

\* __init__, lines 152-153: the result is serialised and reported.
ExitPerms ==
    /\ ppc = "exit"
    /\ PEnded(exit_json([permissions |-> to_json(current_perms)]))
    /\ UNCHANGED <<pparams, pinv, applied_to, is_group, current_obj, current_perms,
                   pwarnings, pcalls, dvars>>

PermIdle ==
    /\ pparams = [object_type |-> None, object_name |-> None, moid |-> None,
                  principal |-> None, group |-> None]
    /\ pinv = {}
    /\ ppc = "idle"
    /\ applied_to = None
    /\ is_group = FALSE
    /\ current_obj = NoManagedObject
    /\ current_perms = <<>>
    /\ pwarnings = <<>>
    /\ pcalls = <<>>
    /\ preport = NoReport

DeployIdle ==
    /\ params = Nothing
    /\ check_mode = FALSE
    /\ inv = Nothing
    /\ pc = "idle"
    /\ ids = NoIds
    /\ debug = None
    /\ HAS_VAUTOMATION = TRUE
    /\ has_result = FALSE
    /\ calls = <<>>
    /\ report = NoReport
    /\ run = 0
    /\ deployedIn = 0

PermInit ==
    /\ pparams \in PermParams
    /\ pinv \in SUBSET ManagedObjects
    /\ ppc = "main"
    /\ applied_to = None
    /\ is_group = FALSE
    /\ current_obj = NoManagedObject
    /\ current_perms = <<>>
    /\ pwarnings = <<>>
    /\ pcalls = <<>>
    /\ preport = NoReport
    /\ DeployIdle

PermNext ==
    \/ ParseArguments
    \/ ConstructPerms
    \/ GetObject
    \/ GetPerms
    \/ ExitPerms

PermSpec == PermInit /\ [][PermNext]_vars

\* A first run of the deploy module with a module object that may or may not
\* have a `result` attribute.
AnyModuleInit ==
    /\ params \in DeployParams
    /\ HAS_VAUTOMATION \in BOOLEAN
    /\ has_result \in BOOLEAN
    /\ check_mode \in BOOLEAN
    /\ inv \in Inventories(params)
    /\ pc = "init"
    /\ ids = NoIds
    /\ debug = None
    /\ calls = <<>>
    /\ report = NoReport
    /\ run = 1
    /\ deployedIn = 0
    /\ PermIdle

\* Every statement of the module, those after line 192 included.
AnyModuleNext ==
    \/ Construct
    \/ CheckModeExit
    \/ EnterDeploy
    \/ ResolveDatacenter
    \/ ResolveDatastore
    \/ ResolveDatastoreCluster
    \/ ResolveLibraryItem
    \/ ResolveFolder
    \/ ResolveHost
    \/ ResolveResourcePool
    \/ ResolveCluster
    \/ NoResourcePoolSource
    \/ OvfFilter
    \/ Deploy
    \/ NextRun

\* The module run with any module object.  Its behaviours include those of
\* Spec, so what holds in every state of AnyModuleSpec holds of the program;
\* a state reached only with has_result = TRUE is not a state of the program.
AnyModuleSpec == AnyModuleInit /\ [][AnyModuleNext]_vars

\* The program: main() builds module = AnsibleModule(...) (line 361), and an
\* AnsibleModule has no `result` attribute.
Init ==
    /\ AnyModuleInit
    /\ has_result = FALSE

\* The steps of the program: line 192 ends every run that resolved the
\* datacenter, so no statement after it is executed.
Next ==
    \/ Construct
    \/ CheckModeExit
    \/ EnterDeploy
    \/ ResolveDatacenter
    \/ ResolveDatastore
    \/ NextRun

Spec == Init /\ [][Next]_vars

(***************************************************************************)
(* Vocabulary of the claims about the deploy module.                       *)
(***************************************************************************)
\* The lookups of a named object done by deploy_vm_from_ovf_template.
LookupOps == {"get_datacenter_by_name", "get_datastore_by_name",
              "find_datastore_cluster_by_name",
              "get_library_item_from_content_library_name", "get_library_item_by_name",
              "get_folder_by_name", "get_host_by_name", "get_resource_pool_by_name",
              "get_cluster_by_name"}

Positions(op) == {k \in 1..Len(calls) : calls[k].op = op}
Issued(op) == Positions(op) # {}
Lookups == {k \in 1..Len(calls) : calls[k].op \in LookupOps}

\* The remote calls of deploy_vm_from_ovf_template.
DeployFunctionOps ==
    LookupOps \cup {"get_recommended_datastore", "Cluster.get", "filter", "deploy"}

\* The message that names the object a lookup did not find.
NotFoundMessage(op) ==
    CASE op = "get_datacenter_by_name" -> "Failed to find the datacenter DC"
      [] op = "get_datastore_by_name" -> "Failed to find the datastore DS"
      [] op = "find_datastore_cluster_by_name" -> "Failed to find the datastore cluster DSC"
      [] op = "get_library_item_from_content_library_name" ->
             "Failed to find the library Item tmpl in content library lib"
      [] op = "get_library_item_by_name" -> "Failed to find the library Item tmpl"
      [] op = "get_folder_by_name" -> "Failed to find the folder vm"
      [] op = "get_host_by_name" -> "Failed to find the Host esx1"
      [] op = "get_resource_pool_by_name" -> "Failed to find the resource_pool rp"
      [] op = "get_cluster_by_name" -> "Failed to find the Cluster cl"

\* Whether a VM of the requested name existed when the current run started:
\* the inventory gains a VM only by the deploy call of a run.
VmPresentAtStart == params.name \in DOMAIN inv.vms /\ deployedIn # run
VmAbsentAtStart == ~VmPresentAtStart

\* C1: a lookup of a named object that returns nothing ends the run in
\* fail_json with the message naming that object, and the run issues neither
\* the OVF filter call nor the deploy call.
C1_LookupFailureFailsFast ==
    \A k \in Lookups :
        ~Truthy(calls[k].found) =>
            /\ pc = "done"
            /\ report.kind = "fail_json"
            /\ report.args.msg = NotFoundMessage(calls[k].op)
            /\ ~Issued("filter")
            /\ ~Issued("deploy")

\* C1 witness: a run in which the datacenter, datastore cluster and library item
\* were found and the folder was not.
C1_Witness ==
    /\ pc = "done"
    /\ Issued("find_datastore_cluster_by_name")
    /\ \E k \in Positions("get_folder_by_name") : calls[k].found = None
    /\ report.kind = "fail_json"

\* The id a lookup of the current run resolved to (None if it was not made).
Resolved(op) ==
    IF Issued(op) THEN calls[CHOOSE k \in Positions(op) : TRUE].found ELSE None

ResolvedLibraryItem ==
    IF Issued("get_library_item_by_name") THEN Resolved("get_library_item_by_name")
    ELSE Resolved("get_library_item_from_content_library_name")
ResolvedDatastore ==
    IF Issued("get_datastore_by_name") THEN Resolved("get_datastore_by_name")
    ELSE Resolved("get_recommended_datastore")
ResolvedResourcePool ==
    IF Issued("get_resource_pool_by_name") THEN Resolved("get_resource_pool_by_name")
    ELSE IF Issued("Cluster.get") THEN inv.cluster_rp ELSE None

AllLookupsResolved == \A k \in Lookups : Truthy(calls[k].found)

\* The deploy call carries the ids the lookups resolved to.
DeployCarriesResolvedIds ==
    \A k \in Positions("deploy") :
        /\ calls[k].ovf_library_item_id = ResolvedLibraryItem
        /\ Truthy(calls[k].ovf_library_item_id)
        /\ calls[k].target.resource_pool_id = ResolvedResourcePool
        /\ calls[k].target.folder_id = Resolved("get_folder_by_name")
        /\ calls[k].spec.name = params.name
        /\ calls[k].spec.default_datastore_id = ResolvedDatastore

\* C2 as stated: a finished non-check-mode run (of a module whose SDK was
\* imported) with no VM at start and every attempted lookup resolved has issued
\* exactly one deploy call carrying the resolved ids; never more than one
\* deploy call.
C2_Original ==
    /\ Cardinality(Positions("deploy")) <= 1
    /\ (/\ pc = "done" /\ ~check_mode /\ HAS_VAUTOMATION /\ VmAbsentAtStart
        /\ AllLookupsResolved) =>
            /\ Cardinality(Positions("deploy")) = 1
            /\ DeployCarriesResolvedIds

\* The remote calls that ended by raising an error.
Raised ==
    {k \in 1..Len(calls) :
        /\ calls[k].op \in {"Cluster.get", "filter", "deploy"}
        /\ calls[k].outcome \in {"Error", "Exception"}}

\* C3 as stated: a remote call that raises (Cluster.get, filter, deploy) ends
\* the run in fail_json with a message; it is the last call of the run and was
\* issued once.
C3_RemoteErrorIsFailJson ==
    \A k \in Raised :
        /\ pc = "done"
        /\ report.kind = "fail_json"
        /\ Truthy(report.args.msg)
        /\ k = Len(calls)
        /\ Cardinality(Positions(calls[k].op)) = 1

\* C4 as stated: a deploy result with succeeded = true ends the run in a
\* success report with changed = true and the result's id as vm_id; a result
\* with succeeded = false ends it in a failure report; a non-check-mode run
\* reports changed = true only after a deploy result with succeeded = true.
C4_ResultMapsToReport ==
    /\ \A k \in Positions("deploy") :
        calls[k].outcome = "result" =>
            IF calls[k].result.succeeded
            THEN /\ report.kind = "exit_json"
                 /\ report.args.changed = TRUE
                 /\ report.args.vm_deploy_info.vm_id = calls[k].result.id
            ELSE report.kind = "fail_json"
    /\ (pc = "done" /\ ~check_mode /\ report.kind = "exit_json" /\ report.args.changed) =>
            \E k \in Positions("deploy") :
                calls[k].outcome = "result" /\ calls[k].result.succeeded

\* The place of each resolver in the order datacenter, datastore / datastore
\* cluster, library item, folder, host, resource pool / cluster.
Stage(op) ==
    CASE op = "get_datacenter_by_name" -> 1
      [] op \in {"get_datastore_by_name", "find_datastore_cluster_by_name"} -> 2
      [] op \in {"get_library_item_from_content_library_name",
                 "get_library_item_by_name"} -> 3
      [] op = "get_folder_by_name" -> 4
      [] op = "get_host_by_name" -> 5
      [] op \in {"get_resource_pool_by_name", "get_cluster_by_name"} -> 6

\* The stage a failure message speaks of (0: not a message about a missing object).
MessageStage(m) ==
    CASE m = "Failed to find the datacenter DC" -> 1
      [] m \in {"Failed to find the datastore DS",
                "Failed to find the datastore cluster DSC",
                "Failed to find the datastore using either datastore or datastore cluster"}
            -> 2
      [] m \in {"Failed to find the library Item tmpl in content library lib",
                "Failed to find the library Item tmpl"} -> 3
      [] m = "Failed to find the folder vm" -> 4
      [] m = "Failed to find the Host esx1" -> 5
      [] m \in {"Failed to find the resource_pool rp", "Failed to find the Cluster cl",
                "Failed to find a resource pool either by name or cluster"} -> 6
      [] OTHER -> 0

\* The stages at which the inventory lacks what the parameters name.  The
\* datastore cluster is consulted only without a datastore name, the cluster
\* only without a resource pool name.
MissingStages ==
    {s \in 1..6 :
        CASE s = 1 -> params.datacenter \notin DOMAIN inv.datacenters
          [] s = 2 -> IF params.datastore # None
                      THEN params.datastore \notin DOMAIN inv.datastores
                      ELSE \/ params.datastore_cluster \notin DOMAIN inv.datastore_clusters
                           \/ inv.datastore_clusters[params.datastore_cluster].recommended
                                = None
          [] s = 3 -> <<params.library, params.template>> \notin DOMAIN inv.library_items
          [] s = 4 -> params.folder \notin DOMAIN inv.folders
          [] s = 5 -> params.host # None /\ params.host \notin DOMAIN inv.hosts
          [] s = 6 -> IF params.resource_pool # None
                      THEN params.resource_pool \notin DOMAIN inv.resource_pools
                      ELSE IF params.cluster # None
                      THEN \/ params.cluster \notin DOMAIN inv.clusters
                           \/ inv.cluster_rp = None
                      ELSE TRUE}

FirstMissingStage == CHOOSE s \in MissingStages : \A t \in MissingStages : s <= t

\* C5 as stated: the resolvers are called in the fixed order, each at most
\* once; a later resolver is called only after every earlier attempted one
\* returned a non-empty id; and a finished run that entered the function with
\* objects missing at one or more stages has ended in the failure report of
\* the first such stage (or in the error Cluster.get raised at the last stage).
C5_ResolverOrder ==
    /\ \A j, k \in Lookups :
        j < k => /\ Stage(calls[j].op) < Stage(calls[k].op)
                 /\ Truthy(calls[j].found)
    /\ (pc = "done" /\ Issued("get_datacenter_by_name") /\ MissingStages # {}) =>
            \/ /\ report.kind = "fail_json"
               /\ MessageStage(report.args.msg) = FirstMissingStage
            \/ /\ report.kind = "exception"
               /\ Issued("Cluster.get")
               /\ FirstMissingStage = 6

\* The ids that the filter and deploy calls need.
RequiredIdsPresent ==
    /\ Truthy(ids.datacenter_id)
    /\ Truthy(ids.datastore_id)
    /\ Truthy(ids.library_item_id)
    /\ Truthy(ids.folder_id)
    /\ Truthy(ids.resourcepool_id)
    /\ (params.host # None => Truthy(ids.host_id))

\* C6: whenever the OVF filter call or the deploy call is issued, the
\* datacenter, datastore, library item, folder and resource pool ids are
\* non-empty, and so is the host id if a host was named; the calls carry
\* non-empty ids.
C6_IdsNonEmptyToProceed ==
    /\ pc \in {"filter", "deploy"} => RequiredIdsPresent
    /\ \A k \in Positions("filter") \cup Positions("deploy") :
        /\ RequiredIdsPresent
        /\ Truthy(calls[k].ovf_library_item_id)
        /\ Truthy(calls[k].target.resource_pool_id)
        /\ Truthy(calls[k].target.folder_id)
    /\ \A k \in Positions("deploy") : Truthy(calls[k].spec.default_datastore_id)

\* C6 witness: the deploy call was issued with the datastore id recommended by
\* the datastore cluster, the root resource pool of the cluster and a host.
C6_Witness ==
    /\ Issued("deploy")
    /\ Issued("get_recommended_datastore")
    /\ Issued("Cluster.get")
    /\ ids.datastore_id = "datastore-12"
    /\ ids.resourcepool_id = "resgroup-10"
    /\ ids.host_id = "host-21"

\* C9 as stated: every run that ends in a non-failure report (VM already
\* exists, check mode, deploy succeeded) returns vm_deploy_info with a msg and
\* a vm_id.
C9_DeployInfoOnSuccess ==
    (pc = "done" /\ report.kind = "exit_json") =>
        /\ "vm_deploy_info" \in DOMAIN report.args
        /\ {"msg", "vm_id"} \subseteq DOMAIN report.args.vm_deploy_info

\* A finished run that started with the VM present issued only the get_vm
\* call and reported changed = false with the existing VM's id.
ExistingVmReported ==
    /\ Len(calls) = 1
    /\ calls[1].op = "get_vm"
    /\ report.kind = "exit_json"
    /\ report.args.changed = FALSE
    /\ report.args.vm_deploy_info.vm_id = inv.vms[params.name]

\* Every run after one whose deploy call succeeded issues no lookup, filter or
\* deploy call and reports changed = false with the deployed VM's id.
LaterRunsUnchanged ==
    (deployedIn > 0 /\ run > deployedIn) =>
        /\ ~Issued("deploy")
        /\ ~Issued("filter")
        /\ Lookups = {}
        /\ pc = "done" =>
            /\ report.kind = "exit_json"
            /\ report.args.changed = FALSE
            /\ report.args.vm_deploy_info.vm_id \in NewVmIds

\* C10 as stated: a run that starts with the VM present issues no lookup,
\* filter or deploy call and ends with changed = false and the existing VM's
\* id, in check mode or not; and every run after a successful deploy reports
\* changed = false and issues no deploy call.
C10_Original ==
    /\ VmPresentAtStart =>
        /\ \A k \in 1..Len(calls) : calls[k].op \notin DeployFunctionOps
        /\ pc = "done" => ExistingVmReported
    /\ LaterRunsUnchanged

\* C10 amended: a run that starts with the VM present issues no lookup, filter
\* or deploy call, in check mode or not; where the vSphere Automation SDK is
\* importable it ends with changed = false and the existing VM's id, and where
\* it is not it ends without a success report before any call; and every run
\* after a successful deploy reports changed = false and issues no deploy call.
C10_IdempotentOnVmName ==
    /\ VmPresentAtStart =>
        /\ \A k \in 1..Len(calls) : calls[k].op \notin DeployFunctionOps
        /\ pc = "done" =>
            IF HAS_VAUTOMATION THEN ExistingVmReported
            ELSE calls = <<>> /\ report.kind # "exit_json"
    /\ LaterRunsUnchanged

\* C10 witness: a check-mode run that ended after an earlier run had deployed
\* the VM.
C10_Witness ==
    /\ VmPresentAtStart
    /\ deployedIn = 1
    /\ run = 2
    /\ check_mode
    /\ pc = "done"
    /\ report.kind = "exit_json"
    /\ report.args.changed = FALSE

(***************************************************************************)
(* Claims about the permissions-info module (PermSpec).                    *)
(***************************************************************************)
Queries == {k \in 1..Len(pcalls) : pcalls[k].op = "RetrieveEntityPermissions"}

\* The named object of the given type is not in the inventory.
NamedObjectAbsent ==
    /\ ~(pparams.object_type = "Folder" /\ pparams.object_name = "rootFolder")
    /\ find_obj(pinv, pparams.object_type, pparams.object_name) = {NoManagedObject}

\* The target was resolved to an object of the inventory.
ObjectResolved == current_obj \in pinv \cup {rootFolder}

\* The query is issued at most once and only on a resolved object; an invalid
\* type or an absent object ends the run in fail_json without a query.
QueryOnlyOnResolvedObject ==
    /\ Cardinality(Queries) <= 1
    /\ \A k \in Queries :
        /\ ObjectResolved
        /\ pcalls[k].entity = current_obj.moid
        /\ pcalls[k].entity # None
    /\ (ppc = "done" /\ (pparams.object_type \notin VimTypes \/ NamedObjectAbsent)) =>
        /\ preport.kind = "fail_json"
        /\ Truthy(preport.args.msg)
        /\ Queries = {}

\* C7 as stated: the above, and a run that resolved the object ends with
\* exactly one query and a success report carrying the permissions.
C7_Original ==
    /\ QueryOnlyOnResolvedObject
    /\ (ppc = "done" /\ ObjectResolved) =>
        /\ Cardinality(Queries) = 1
        /\ preport.kind = "exit_json"
        /\ preport.args.permissions = to_json(current_perms)

\* C7 amended: the query is issued at most once and only on a resolved object;
\* an invalid type or an absent object ends the run in fail_json without a
\* query; a run that resolved the object issues exactly one query, and ends in
\* a success report carrying the permissions the query returned if the query
\* returns, and in no report of success if the query raises.
C7_QueryAfterResolution ==
    /\ QueryOnlyOnResolvedObject
    /\ (ppc = "done" /\ ObjectResolved) =>
        /\ Cardinality(Queries) = 1
        /\ \A k \in Queries :
            IF pcalls[k].outcome = "result"
            THEN /\ preport.kind = "exit_json"
                 /\ preport.args.permissions = to_json(current_perms)
                 /\ Len(preport.args.permissions) = Len(current_perms)
            ELSE preport.kind # "exit_json"
    /\ preport.kind = "exit_json" =>
        \E k \in Queries : pcalls[k].outcome = "result"

\* C7 witness: a named folder was resolved, queried once, and its two
\* permissions were reported.
C7_Witness ==
    /\ ppc = "done"
    /\ pparams.object_name = "services"
    /\ current_obj.moid = "group-v1"
    /\ Cardinality(Queries) = 1
    /\ preport.kind = "exit_json"
    /\ Len(preport.args.permissions) = 2

\* The task names the object by moid alone and is otherwise well formed, and
\* the inventory holds the object with that id.
MoidNamesAnObject ==
    /\ pparams.moid # None
    /\ pparams.object_name = None
    /\ pparams.object_type \in ObjectTypeChoices
    /\ (pparams.principal = None) # (pparams.group = None)
    /\ \E o \in pinv : o.moid = pparams.moid

\* C8 as stated: when moid is supplied (and object_name is not), the object
\* whose permissions are queried is the object with that managed object id:
\* no query is made of another object, and the finished run has queried it.
C8_MoidSelectsObject ==
    /\ (pparams.moid # None /\ pparams.object_name = None) =>
            \A k \in Queries : pcalls[k].entity = pparams.moid
    /\ (ppc = "done" /\ MoidNamesAnObject) =>
            \E k \in Queries : pcalls[k].entity = pparams.moid

(***************************************************************************)
(* Check mode of the deploy module.                                        *)
(***************************************************************************)
\* The report of a check-mode run that found no VM.
CheckModeReport ==
    /\ Len(calls) = 1
    /\ calls[1].op = "get_vm"
    /\ report.kind = "exit_json"
    /\ report.args = [failed |-> FALSE, changed |-> TRUE,
                      vm_name |-> params.name,
                      desired_operation |-> "Create VM with PowerOff State"]
    /\ inv.vms = Nothing

\* A check-mode run issues no deploy call, no OVF filter call and no lookup of
\* deploy_vm_from_ovf_template, and never enters that function.
NoDeployFunctionCall ==
    /\ \A k \in 1..Len(calls) : calls[k].op \notin DeployFunctionOps
    /\ pc \in {"init", "main", "done"}
    /\ ids = NoIds

\* C11 as stated: a check-mode run issues no deploy call, no OVF filter call
\* and no lookup of deploy_vm_from_ovf_template; when the VM does not exist it
\* ends with failed = false, changed = true, the requested vm_name and
\* desired_operation 'Create VM with PowerOff State', whatever the inventory
\* holds.
C11_Original ==
    check_mode =>
        /\ NoDeployFunctionCall
        /\ (pc = "done" /\ VmAbsentAtStart) => CheckModeReport

\* C11 amended: a check-mode run issues no deploy call, no OVF filter call and
\* no lookup of deploy_vm_from_ovf_template; when the VM does not exist and the
\* vSphere Automation SDK is importable it ends with failed = false,
\* changed = true, the requested vm_name and desired_operation 'Create VM with
\* PowerOff State', whatever the inventory holds; without the SDK it ends
\* without a success report before any call.
C11_CheckModeIssuesNoCalls ==
    check_mode =>
        /\ NoDeployFunctionCall
        /\ (pc = "done" /\ VmAbsentAtStart) =>
            IF HAS_VAUTOMATION THEN CheckModeReport
            ELSE calls = <<>> /\ report.kind # "exit_json"

\* C11 witness: a check-mode run has reported the intended creation although
\* neither the datacenter nor the folder of the request exists.
C11_Witness ==
    /\ check_mode
    /\ pc = "done"
    /\ VmAbsentAtStart
    /\ inv.datacenters = Nothing
    /\ inv.folders = Nothing
    /\ report.kind = "exit_json"
    /\ report.args.changed = TRUE

====
